---- MODULE Spec2Model ----
(***************************************************************************)
(* A model of the browser image editor: the top-level session of           *)
(* src/app/page.tsx, the crop stage of src/components/image-cropper.tsx,   *)
(* the filter stage of src/components/image-filters.tsx and the annotation *)
(* stage (ImageEditorTools) of src/unnamed/part_000.                       *)
(*                                                                         *)
(* React state is modelled as variables.  An event handler runs against    *)
(* the state of the latest render and the re-render that follows it is     *)
(* part of the handler's action.  A callback handed to the platform (an    *)
(* Image's onload) is a record in a bag of pending callbacks; it keeps     *)
(* the values its closure captured when it was created, and the pending    *)
(* callbacks of distinct Image objects may complete in any order.          *)
(*                                                                         *)
(* The toolbar buttons (undo, redo, the tool buttons) are operated with    *)
(* the pointer, and a pointer that leaves the canvas ends the gesture      *)
(* (onMouseLeave), so a button's handler runs only while no gesture is     *)
(* active.                                                                 *)
(*                                                                         *)
(* The specifications share the variables: SpecEditor, SpecShapes and      *)
(* SpecText (annotation stage with the brush, the shape tools and the text *)
(* tool), SpecCrop (crop stage), SpecSession (top-level session),          *)
(* SpecMapper (pointer mapping), SpecDownload (export stage) and           *)
(* SpecFilters (filter stage).                                             *)
(***************************************************************************)
EXTENDS Integers, Sequences, FiniteSets, Bags, TLC

VARIABLES
    \* ---- annotation stage (src/unnamed/part_000) ----
    canvas,         \* the live buffer behind canvasRef
    drawingState,   \* useState<DrawingState>
    textElements,   \* useState<TextElement[]>
    history,        \* useState<string[]>: data URLs, JS index i is history[i+1]
    historyStep,    \* useState(-1): the cursor, a JS index
    imgLoads,       \* bag of Image objects whose onload has not fired yet
    edTrace,        \* history variable: what the stage has done so far
    \* ---- crop stage (src/components/image-cropper.tsx) ----
    cropArea,       \* useState<CropArea>, in sub-pixels
    isDragging,     \* useState(false)
    dragStart,      \* useState({x: 0, y: 0}): the grab offset, in sub-pixels
    imageSize,      \* useState({width: 0, height: 0}), in pixels
    container,      \* containerRef.current's clientWidth and clientHeight, in pixels
    cropLoad,       \* the mount effect's Image while its onload has not fired
    cropTrace,      \* history variable: the last handler that ran
    cropOutput,     \* what applyCrop drew and handed to onCropComplete
    \* ---- session (src/app/page.tsx) ----
    uploadedImage, croppedImage, filteredImage, editedImage,
    showCropper, showFilters, showEditor, showDownload,
    filterLoads,    \* applyFilters' Image objects whose onload has not fired
    sessTrace,      \* history variable: the last handler and what it saw
    \* ---- the coordinate mapper (getCanvasCoordinates) on its own ----
    mapper,         \* the canvas' size, the last pointer event, its box and its result
    \* ---- export stage (src/components/image-download.tsx) ----
    download,       \* settings, originalDimensions, customDimensions, the pending load
    \* ---- filter stage (src/components/image-filters.tsx) ----
    filterStage     \* imageSrc, filters, the rendered filterStyle, Apply's image and output

edVars   == <<canvas, drawingState, textElements, history, historyStep, imgLoads, edTrace>>
cropVars == <<cropArea, isDragging, dragStart, imageSize, container, cropLoad, cropTrace,
              cropOutput>>
sessVars == <<uploadedImage, croppedImage, filteredImage, editedImage,
              showCropper, showFilters, showEditor, showDownload, filterLoads, sessTrace>>
stageVars == <<mapper, download, filterStage>>
vars     == <<edVars, cropVars, sessVars, stageVars>>

\* null for an image reference of the session; an image is a non-empty sequence
NULL == <<>>

Min(a, b) == IF a < b THEN a ELSE b
Max(a, b) == IF a > b THEN a ELSE b


(***************************************************************************)
(*                          ANNOTATION STAGE                               *)
(***************************************************************************)

\* ---- bounds of the annotation-stage model ----
MaxCommits == 2     \* gestures committed (saveToHistory calls from stopDrawing)
MaxLayers  == 1     \* marks drawn on the live buffer on top of its base image
MaxLoads   == 2     \* Image objects in flight at once
MaxTexts   == 2     \* text elements inserted

Tools == {"brush", "text", "rectangle", "circle", "arrow"}

\* The tools SpecEditor selects: the brush and one shape tool (draw treats
\* rectangle, circle and arrow alike up to the shape it strokes).
EditorTools == {"brush", "rectangle"}

\* the pointer is free to operate a toolbar button
ButtonsReachable == ~drawingState.isDrawing

\* The image the stage is mounted with (the imageSrc prop): a PNG data URL.
ImgWidth  == 2
ImgHeight == 2
imageSrc == [mime |-> "image/png", width |-> ImgWidth, height |-> ImgHeight,
             pixels |-> <<<<"image", "imageSrc", 0>>>>]

\* The <canvas> is rendered without width/height attributes: 300x150, transparent.
BlankCanvas == [width |-> 300, height |-> 150, pixels |-> <<>>]

\* canvas.toDataURL(): a lossless PNG encoding of the buffer.
ToDataURL(c) == [mime |-> "image/png", width |-> c.width, height |-> c.height,
                 pixels |-> c.pixels]

\* ctx.clearRect(0, 0, canvas.width, canvas.height)
ClearRect(c) == [c EXCEPT !.pixels = <<>>]

\* ctx.drawImage(img, 0, 0) with a decoded data URL: an image that covers the
\* buffer replaces what is under it; any other image becomes one more layer.
DrawImage(c, img) ==
    IF img.width = c.width /\ img.height = c.height
    THEN [c EXCEPT !.pixels = img.pixels]
    ELSE [c EXCEPT !.pixels = Append(c.pixels, <<"image", img>>)]

\* a stroke, shape or text drawn on the buffer is one more layer
Stroke(c, mark) == [c EXCEPT !.pixels = Append(c.pixels, mark)]

\* slice(0, n - 1): the cut taken one short
SliceOneShort(s, n) == SubSeq(s, 1, Min(n - 1, Len(s)))

\* Array.prototype.slice(0, n) for n >= 0
Slice(s, n) == SubSeq(s, 1, Min(n, Len(s)))

\* history[i] with a JS index i: defined inside the array, undefined outside
HasHistoryAt(h, i) == i >= 0 /\ i < Len(h)
HistoryAt(h, i) == h[i + 1]

\* saveToHistory pushing without the slice
SaveWithoutSlice(prev, closureStep, c) == Append(prev, ToDataURL(c))

\* saveToHistory pushing the data URL twice
SaveToHistoryTwice(prev, closureStep, c) ==
    Append(Append(Slice(prev, closureStep + 1), ToDataURL(c)), ToDataURL(c))

\* saveToHistory's updater of `history`, run with the historyStep its closure
\* captured: prev.slice(0, historyStep + 1) and push(dataURL)
SaveToHistory(prev, closureStep, c) == Append(Slice(prev, closureStep + 1), ToDataURL(c))

\* undo guarded by historyStep >= 0
CanUndoAtZero(step) == step >= 0

\* the guards of undo and redo
CanUndo(step) == step > 0
CanRedo(step, h) == step < Len(h) - 1

\* Pointer events: the offset of the pointer inside the canvas' rendered box
\* (e.clientX - rect.left, e.clientY - rect.top).
Events == {[px |-> 1, py |-> 1]}

\* getBoundingClientRect() of the canvas: here the canvas is rendered unscaled.
Rects(c) == {[width |-> c.width, height |-> c.height]}

\* A JS number is kept exactly, as a fraction num / den in lowest terms with
\* den > 0; den = 0 stands for the values a division by zero produces:
\* 1/0 is Infinity, -1/0 is -Infinity and 0/0 is NaN.
Abs(a) == IF a < 0 THEN -a ELSE a
Sign(a) == IF a > 0 THEN 1 ELSE IF a < 0 THEN -1 ELSE 0

RECURSIVE Gcd(_, _)
Gcd(a, b) == IF b = 0 THEN a ELSE Gcd(b, a % b)

Fraction(num, den) ==
    LET g == Gcd(Abs(num), den)
    IN [num |-> num \div g, den |-> den \div g]

Number(n) == [num |-> n, den |-> 1]

\* a / b on integers
Divide(a, b) ==
    IF b = 0 THEN [num |-> Sign(a), den |-> 0]
    ELSE Fraction(a * Sign(b), Abs(b))

\* a * b on JS numbers: Infinity * 0 and anything with NaN is NaN
Multiply(a, b) ==
    IF a.den = 0 \/ b.den = 0 THEN [num |-> Sign(a.num) * Sign(b.num), den |-> 0]
    ELSE Fraction(a.num * b.num, a.den * b.den)

IsFinite(x) == x.den # 0

\* n * x for an integer n
Times(n, x) ==
    IF x.den = 0 THEN [num |-> Sign(n) * x.num, den |-> 0]
    ELSE Fraction(n * x.num, x.den)

\* getCanvasCoordinates with the offset multiplied by 1 instead of the scale
GetCanvasCoordinatesUnscaled(e, rect, c) ==
    [x |-> Times(e.px, Number(1)),
     y |-> Times(e.py, Number(1))]

GetCanvasCoordinates(e, rect, c) ==
    LET scaleX == Divide(c.width, rect.width)
        scaleY == Divide(c.height, rect.height)
    IN [x |-> Times(e.px, scaleX),
        y |-> Times(e.py, scaleY)]

\* An Image in flight: its src and what its onload closure captured.
Load(kind, src, captured) == [kind |-> kind, src |-> src, captured |-> captured]

\* the stage is rendered: onEditComplete has not closed it
Mounted == ~edTrace.applied

\* the mount effect's image is still decoding
Mounting == \E l \in BagToSet(imgLoads) : l.kind = "mount"

OneLoad(l) == SetToBag({l})

\* the live buffer shows the snapshot under the cursor and nothing is in flight
InSync(c, h, step, loads) ==
    /\ loads = EmptyBag
    /\ HasHistoryAt(h, step)
    /\ ToDataURL(c) = HistoryAt(h, step)

EdInit ==
    /\ canvas = BlankCanvas
    /\ drawingState = [tool |-> "brush", isDrawing |-> FALSE, lastX |-> Number(0), lastY |-> Number(0)]
    /\ textElements = <<>>
    /\ history = <<>>
    /\ historyStep = -1
    \* the mount effect: img.onload = ...; img.src = imageSrc
    /\ imgLoads = OneLoad(Load("mount", imageSrc, [historyStep |-> -1]))
    /\ edTrace = [noop |-> "none", commits |-> 0, path |-> "linear", synced |-> FALSE,
                  start |-> [x |-> Number(0), y |-> Number(0)], applied |-> FALSE,
                  output |-> ToDataURL(BlankCanvas), textsAtUndo |-> 0]

\* img.onload of the mount effect
ImageLoaded(l) ==
    /\ Mounted
    /\ l.kind = "mount"
    /\ LET c == DrawImage([width |-> l.src.width, height |-> l.src.height, pixels |-> <<>>], l.src)
           h == SaveToHistory(history, l.captured.historyStep, c)
       IN /\ canvas' = c
          /\ history' = h
          /\ historyStep' = historyStep + 1
          /\ imgLoads' = imgLoads (-) OneLoad(l)
          /\ edTrace' = [edTrace EXCEPT !.noop = "none",
                            !.synced = InSync(c, h, historyStep + 1, imgLoads (-) OneLoad(l))]
    /\ UNCHANGED <<drawingState, textElements>>
    /\ UNCHANGED <<cropVars, sessVars, stageVars>>

Undo ==
    /\ Mounted
    /\ ButtonsReachable
    /\ IF CanUndo(historyStep)
       THEN /\ historyStep' = historyStep - 1
            \* img.src = history[historyStep - 1]; an undefined src never fires onload
            /\ IF HasHistoryAt(history, historyStep - 1)
               THEN /\ BagCardinality(imgLoads) < MaxLoads
                    /\ imgLoads' = imgLoads (+) OneLoad(Load("redraw", HistoryAt(history, historyStep - 1), <<>>))
               ELSE UNCHANGED imgLoads
            /\ edTrace' = [edTrace EXCEPT !.noop = "none", !.path = IF @ = "early" THEN @ ELSE "undone",
                                          !.textsAtUndo = Len(textElements)]
            /\ UNCHANGED <<canvas, drawingState, textElements, history>>
       ELSE /\ edTrace' = [edTrace EXCEPT !.noop = "undo"]
            /\ UNCHANGED <<canvas, drawingState, textElements, history, historyStep, imgLoads>>
    /\ UNCHANGED <<cropVars, sessVars, stageVars>>

Redo ==
    /\ Mounted
    /\ ButtonsReachable
    /\ IF CanRedo(historyStep, history)
       THEN /\ historyStep' = historyStep + 1
            \* img.src = history[historyStep + 1]; an undefined src never fires onload
            /\ IF HasHistoryAt(history, historyStep + 1)
               THEN /\ BagCardinality(imgLoads) < MaxLoads
                    /\ imgLoads' = imgLoads (+) OneLoad(Load("redraw", HistoryAt(history, historyStep + 1), <<>>))
               ELSE UNCHANGED imgLoads
            /\ edTrace' = [edTrace EXCEPT !.noop = "none"]
            /\ UNCHANGED <<canvas, drawingState, textElements, history>>
       ELSE /\ edTrace' = [edTrace EXCEPT !.noop = "redo"]
            /\ UNCHANGED <<canvas, drawingState, textElements, history, historyStep, imgLoads>>
    /\ UNCHANGED <<cropVars, sessVars, stageVars>>

\* img.onload of undo and redo: clearRect, then drawImage
RedrawLoaded(l) ==
    /\ Mounted
    /\ l.kind = "redraw"
    /\ canvas' = DrawImage(ClearRect(canvas), l.src)
    /\ imgLoads' = imgLoads (-) OneLoad(l)
    /\ edTrace' = [edTrace EXCEPT !.noop = "none"]
    /\ UNCHANGED <<drawingState, textElements, history, historyStep>>
    /\ UNCHANGED <<cropVars, sessVars, stageVars>>

\* renderTextElements filling the newest element only
RenderLastTextElement(c, texts) ==
    IF texts = <<>> THEN c
    ELSE Stroke(c, <<"text", texts[Len(texts)].id, texts[Len(texts)].x, texts[Len(texts)].y>>)

\* renderTextElements, run by the effect on [textElements]
RenderTextElements(c, texts) ==
    LET RECURSIVE Fill(_, _)
        Fill(cc, k) == IF k > Len(texts) THEN cc
                       ELSE Fill(Stroke(cc, <<"text", texts[k].id, texts[k].x, texts[k].y>>), k + 1)
    IN Fill(c, 1)

\* onMouseDown
StartDrawing(e, rect) ==
    /\ Mounted
    /\ LET p == GetCanvasCoordinates(e, rect, canvas)
       IN IF drawingState.tool = "text"
          THEN /\ Len(textElements) < MaxTexts
               /\ LET texts == Append(textElements,
                                      [id |-> Len(textElements) + 1, x |-> p.x, y |-> p.y,
                                       text |-> "Sample Text", isEditing |-> TRUE])
                  IN /\ textElements' = texts
                     /\ canvas' = RenderTextElements(canvas, texts)
               /\ edTrace' = [edTrace EXCEPT !.noop = "none", !.synced = FALSE]
               /\ UNCHANGED <<drawingState, history, historyStep, imgLoads>>
          ELSE /\ edTrace.commits < MaxCommits
               /\ drawingState' = [drawingState EXCEPT !.isDrawing = TRUE, !.lastX = p.x, !.lastY = p.y]
               /\ edTrace' = [edTrace EXCEPT !.noop = "none", !.start = p]
               /\ UNCHANGED <<canvas, textElements, history, historyStep, imgLoads>>
    /\ UNCHANGED <<cropVars, sessVars, stageVars>>

\* onMouseMove
Draw(e, rect) ==
    /\ Mounted
    /\ drawingState.isDrawing
    /\ LET p == GetCanvasCoordinates(e, rect, canvas)
       IN /\ IF drawingState.tool = "brush"
             THEN /\ Len(canvas.pixels) <= MaxLayers
                  /\ canvas' = Stroke(canvas, <<"brush", drawingState.lastX, drawingState.lastY, p.x, p.y>>)
                  /\ UNCHANGED imgLoads
             ELSE IF drawingState.tool \in {"rectangle", "circle", "arrow"}
             THEN /\ canvas' = ClearRect(canvas)
                  \* img.src = history[historyStep]; an undefined src never fires onload
                  /\ IF HasHistoryAt(history, historyStep)
                     THEN /\ BagCardinality(imgLoads) < MaxLoads
                          /\ Len(HistoryAt(history, historyStep).pixels) <= MaxLayers
                          /\ imgLoads' = imgLoads (+) OneLoad(Load("preview", HistoryAt(history, historyStep),
                                                    [tool |-> drawingState.tool,
                                                     lastX |-> drawingState.lastX,
                                                     lastY |-> drawingState.lastY,
                                                     x |-> p.x, y |-> p.y]))
                     ELSE UNCHANGED imgLoads
             ELSE UNCHANGED <<canvas, imgLoads>>
          /\ drawingState' = [drawingState EXCEPT !.lastX = p.x, !.lastY = p.y]
    /\ edTrace' = [edTrace EXCEPT !.noop = "none", !.synced = FALSE]
    /\ UNCHANGED <<textElements, history, historyStep>>
    /\ UNCHANGED <<cropVars, sessVars, stageVars>>

\* img.onload of a rectangle, circle or arrow preview: drawImage, then the
\* shape between the points the closure captured
PreviewLoaded(l) ==
    /\ Mounted
    /\ l.kind = "preview"
    /\ canvas' = Stroke(DrawImage(canvas, l.src), <<l.captured.tool, l.captured.lastX, l.captured.lastY, l.captured.x, l.captured.y>>)
    /\ imgLoads' = imgLoads (-) OneLoad(l)
    /\ edTrace' = [edTrace EXCEPT !.noop = "none", !.synced = FALSE]
    /\ UNCHANGED <<drawingState, textElements, history, historyStep>>
    /\ UNCHANGED <<cropVars, sessVars, stageVars>>

\* onMouseUp and onMouseLeave
StopDrawing ==
    /\ Mounted
    /\ drawingState.isDrawing
    /\ drawingState' = [drawingState EXCEPT !.isDrawing = FALSE]
    /\ LET h == SaveToHistory(history, historyStep, canvas)
       IN /\ history' = h
          /\ historyStep' = historyStep + 1
          /\ edTrace' = [edTrace EXCEPT
                 !.noop = "none",
                 !.commits = @ + 1,
                 !.path = IF Mounting THEN "early" ELSE @,
                 !.synced = InSync(canvas, h, historyStep + 1, imgLoads)]
    /\ UNCHANGED <<canvas, textElements, imgLoads>>
    /\ UNCHANGED <<cropVars, sessVars, stageVars>>

SelectTool(tool) ==
    /\ Mounted
    /\ ButtonsReachable
    /\ tool \in Tools
    /\ tool # drawingState.tool
    /\ drawingState' = [drawingState EXCEPT !.tool = tool]
    /\ edTrace' = [edTrace EXCEPT !.noop = "none"]
    /\ UNCHANGED <<canvas, textElements, history, historyStep, imgLoads>>
    /\ UNCHANGED <<cropVars, sessVars, stageVars>>

\* the Apply button: applyEdits hands canvas.toDataURL("image/png") to
\* onEditComplete, which closes the stage
ApplyEditsClicked ==
    /\ Mounted
    /\ ButtonsReachable
    /\ edTrace' = [edTrace EXCEPT !.noop = "none", !.applied = TRUE,
                                  !.output = ToDataURL(canvas)]
    /\ UNCHANGED <<canvas, drawingState, textElements, history, historyStep, imgLoads>>
    /\ UNCHANGED <<cropVars, sessVars, stageVars>>

EdNext ==
    \/ \E l \in BagToSet(imgLoads) : ImageLoaded(l)
    \/ \E l \in BagToSet(imgLoads) : RedrawLoaded(l)
    \/ \E l \in BagToSet(imgLoads) : PreviewLoaded(l)
    \/ Undo
    \/ Redo
    \/ \E e \in Events : \E rect \in Rects(canvas) : StartDrawing(e, rect)
    \/ \E e \in Events : \E rect \in Rects(canvas) : Draw(e, rect)
    \/ StopDrawing
    \/ \E tool \in EditorTools : SelectTool(tool)

\* the shape tools, and a pointer that moves away from where it was pressed
ShapeTools == {"rectangle", "circle", "arrow"}
MoveEvents == {[px |-> 2, py |-> 2]}

\* the same stage, with shape gestures that are pressed at one point and
\* dragged to another
ShapesNext ==
    \/ \E l \in BagToSet(imgLoads) : ImageLoaded(l)
    \/ \E l \in BagToSet(imgLoads) : RedrawLoaded(l)
    \/ \E l \in BagToSet(imgLoads) : PreviewLoaded(l)
    \/ Undo
    \/ Redo
    \/ \E e \in Events : \E rect \in Rects(canvas) : StartDrawing(e, rect)
    \/ \E e \in MoveEvents : \E rect \in Rects(canvas) : Draw(e, rect)
    \/ StopDrawing
    \/ ApplyEditsClicked
    \/ \E tool \in ShapeTools : SelectTool(tool)

\* the same stage with the text tool in place of the shape tools
TextTools == {"text"}

TextNext ==
    \/ \E l \in BagToSet(imgLoads) : ImageLoaded(l)
    \/ \E l \in BagToSet(imgLoads) : RedrawLoaded(l)
    \/ Undo
    \/ Redo
    \/ \E e \in Events : \E rect \in Rects(canvas) : StartDrawing(e, rect)
    \/ \E e \in Events : \E rect \in Rects(canvas) : Draw(e, rect)
    \/ StopDrawing
    \/ ApplyEditsClicked
    \/ \E tool \in TextTools : SelectTool(tool)

(***************************************************************************)
(* edTrace records, for the statements below: noop, the boundary no-op the *)
(* last handler was ("undo", "redo" or "none"); commits, the gestures      *)
(* committed so far; path, "early" once a gesture was committed before the *)
(* image had loaded, else "undone" once an undo took effect, else          *)
(* "linear"; synced, that the buffer showed the snapshot under the cursor  *)
(* with nothing in flight and only undo, redo and their redraws have run   *)
(* since; start, the canvas point of the pointer-down that began the      *)
(* gesture; applied, that Apply has closed the stage, and output, the data *)
(* URL it handed to onEditComplete; textsAtUndo, the number of text        *)
(* elements there were when the last undo took effect.                     *)
(***************************************************************************)

\* C1 as claimed: once the image has loaded, N committed gestures (and no
\* undo) leave exactly N snapshots in the history and the cursor at N-1.
C1_NGesturesNSnapshots ==
    (~Mounting /\ edTrace.path = "linear") =>
        (Len(history) = edTrace.commits /\ historyStep = edTrace.commits - 1)

\* C1 as amended: the load itself pushes snapshot 0, so once the image has
\* loaded, N committed gestures (and no undo) leave N+1 snapshots in the
\* history and the cursor at N.
C1_NGesturesAfterInitialSnapshot ==
    (~Mounting /\ edTrace.path = "linear") =>
        (Len(history) = edTrace.commits + 1 /\ historyStep = edTrace.commits)

C1_Witness == ~Mounting /\ edTrace.path = "linear" /\ edTrace.commits = 2

\* C2: a gesture committed while the cursor c is below the last index drops
\* every snapshot after c and appends the new one: the history then has c+2
\* entries, the cursor is c+1 and the last index, entries 0..c are untouched,
\* the new entry is the live buffer, and redo has nothing to redo.
C2_CommitDiscardsRedoBranch ==
    [][(StopDrawing /\ HasHistoryAt(history, historyStep) /\ historyStep < Len(history) - 1) =>
          /\ Len(history') = historyStep + 2
          /\ historyStep' = historyStep + 1
          /\ historyStep' = Len(history') - 1
          /\ SubSeq(history', 1, historyStep + 1) = SubSeq(history, 1, historyStep + 1)
          /\ history'[historyStep + 2] = ToDataURL(canvas)
          /\ ~CanRedo(historyStep', history')]_vars

\* a gesture was committed after an undo: the history is shorter than the
\* initial snapshot plus one snapshot per committed gesture
C2_Witness ==
    /\ ~Mounting
    /\ edTrace.path = "undone"
    /\ ~drawingState.isDrawing
    /\ historyStep = Len(history) - 1
    /\ Len(history) < edTrace.commits + 1

\* C3 as claimed: the cursor is a valid index into the history, or -1 while
\* the history is empty.
C3_CursorIsValidIndex ==
    IF history = <<>> THEN historyStep = -1 ELSE HasHistoryAt(history, historyStep)

\* C4 as claimed: after undos and redos, once every redraw callback has run,
\* the live buffer equals the snapshot under the cursor.
C4_BufferMatchesCursorAfterRedraws ==
    (edTrace.synced /\ imgLoads = EmptyBag) =>
        (HasHistoryAt(history, historyStep) /\ ToDataURL(canvas) = HistoryAt(history, historyStep))

\* C5: undo at cursor 0 or on an empty history, and redo at the last index,
\* change neither the history, the cursor nor the live buffer, and start no
\* redraw.
C5_BoundaryUndoRedoAreNoOps ==
    [][((Undo /\ historyStep <= 0) \/ (Redo /\ historyStep >= Len(history) - 1)) =>
          UNCHANGED <<history, historyStep, canvas, imgLoads>>]_vars

C5_Witness ==
    /\ edTrace.noop = "undo"
    /\ historyStep = 0
    /\ Len(history) > 1

\* C17 as claimed: during a rectangle, circle or arrow gesture every
\* pointer-move asks for the last committed snapshot to be drawn again with
\* the shape from the point where the pointer was pressed (edTrace.start) to
\* the pointer's current position.
C17_ShapeDrawnFromGestureStart ==
    [][\A e \in MoveEvents : \A rect \in Rects(canvas) :
          (/\ Draw(e, rect)
           /\ drawingState.tool \in ShapeTools
           /\ HasHistoryAt(history, historyStep)) =>
              LET p == GetCanvasCoordinates(e, rect, canvas)
              IN \E l \in BagToSet(imgLoads') :
                    /\ l.kind = "preview"
                    /\ l.src = HistoryAt(history, historyStep)
                    /\ l.captured = [tool |-> drawingState.tool,
                                     lastX |-> edTrace.start.x, lastY |-> edTrace.start.y,
                                     x |-> p.x, y |-> p.y]]_vars

\* C18 as claimed: when pointer-up ends a shape gesture whose pointer has
\* moved, no preview is still waiting to be drawn, and the snapshot pushed is
\* the last committed snapshot with the shape on top of it.
C18_SnapshotHoldsFinalPreview ==
    [][(/\ StopDrawing
        /\ drawingState.tool \in ShapeTools
        /\ HasHistoryAt(history, historyStep)
        /\ <<drawingState.lastX, drawingState.lastY>> # <<edTrace.start.x, edTrace.start.y>>) =>
           LET base == HistoryAt(history, historyStep).pixels
               snap == HistoryAt(history', historyStep').pixels
           IN /\ \A l \in BagToSet(imgLoads) : l.kind # "preview"
              /\ Len(snap) = Len(base) + 1
              /\ SubSeq(snap, 1, Len(base)) = base
              /\ snap[Len(snap)][1] = drawingState.tool]_vars

\* C19 as claimed: no gesture step (pointer-down, pointer-move, pointer-up),
\* no effective undo and no Apply is processed while the mount effect's image
\* is still decoding, that is before the image is drawn and snapshot 0 pushed.
C19_NoInputBeforeImageLoaded ==
    [][(\/ \E e \in Events : \E rect \in Rects(canvas) :
              StartDrawing(e, rect) \/ Draw(e, rect)
        \/ StopDrawing
        \/ Undo /\ CanUndo(historyStep)
        \/ ApplyEditsClicked) => ~Mounting]_vars

\* C20 as claimed: the history changes only in the step that ends a gesture.
C20_OnlyGestureEndAppends ==
    [][history' # history => StopDrawing]_vars

\* C20: the step that ends a gesture pushes exactly one snapshot, the buffer's
\* data URL, after the entries up to the cursor, and advances the cursor by
\* one; the only other step that changes the history is the load callback
\* pushing the initial snapshot, so pointer-down, pointer-move, text
\* insertion, tool changes, undo, redo and Apply never append.
C20_GestureEndOrLoadAppends ==
    [][/\ StopDrawing =>
            /\ Len(history') = Len(Slice(history, historyStep + 1)) + 1
            /\ history'[Len(history')] = ToDataURL(canvas)
            /\ \A i \in 1..(Len(history') - 1) : history'[i] = history[i]
            /\ historyStep' = historyStep + 1
       /\ history' # history =>
            StopDrawing \/ \E l \in BagToSet(imgLoads) : ImageLoaded(l)]_vars

\* a text was inserted, a gesture was committed and Apply was clicked
C20_Witness ==
    /\ Len(textElements) > 0
    /\ edTrace.commits > 0
    /\ edTrace.applied

\* C21 as claimed: once Apply has run on a history that has a snapshot under
\* the cursor, the data URL it handed on is that snapshot.
C21_ApplyOutputsSnapshotAtCursor ==
    (edTrace.applied /\ HasHistoryAt(history, historyStep)) =>
        edTrace.output = HistoryAt(history, historyStep)

\* C26: the list of text elements changes only by a pointer-down with the
\* text tool, which appends one element to it and leaves the earlier elements,
\* the gesture state (Idle), the history and the cursor as they were; and
\* that step draws every element of the list, the earlier ones included, on
\* top of the buffer in the order of insertion.
C26_TextElementsAppendOnly ==
    [][textElements' # textElements =>
          /\ drawingState.tool = "text"
          /\ Len(textElements') = Len(textElements) + 1
          /\ SubSeq(textElements', 1, Len(textElements)) = textElements
          /\ ~drawingState.isDrawing
          /\ drawingState' = drawingState
          /\ history' = history
          /\ historyStep' = historyStep
          /\ Len(canvas'.pixels) = Len(canvas.pixels) + Len(textElements')
          /\ SubSeq(canvas'.pixels, 1, Len(canvas.pixels)) = canvas.pixels
          /\ \A k \in 1..Len(textElements') :
                 canvas'.pixels[Len(canvas.pixels) + k] =
                     <<"text", textElements'[k].id, textElements'[k].x, textElements'[k].y>>]_vars

\* a text element was inserted, an undo took effect and its redraw wiped the
\* buffer, and a second insertion has drawn both elements
C26_Witness ==
    /\ Len(textElements) = 2
    /\ edTrace.textsAtUndo = 1
    /\ Len(canvas.pixels) = 3
    /\ canvas.pixels[1][1] = "image"
    /\ canvas.pixels[2] = <<"text", textElements[1].id, textElements[1].x, textElements[1].y>>
    /\ canvas.pixels[3] = <<"text", textElements[2].id, textElements[2].x, textElements[2].y>>

(***************************************************************************)
(*                               CROP STAGE                                *)
(*                                                                         *)
(* Lengths of the crop region are JS numbers with fractions (a 16:9 preset *)
(* of width 200 is 112.5 high).  They are kept exactly, as integers        *)
(* counting sub-pixels of 1/SubPixels pixel; the sizes below are chosen so *)
(* that every division the code makes is exact (Quot has no value          *)
(* otherwise).  Floating-point rounding is not modelled.                   *)
(***************************************************************************)

SubPixels == 32 * 3
Sub(px) == px * SubPixels

Quot(a, b) == CHOOSE q \in {a \div b} : q * b = a

\* style={{ height: "400px" }} of the container
ContainerHeight == 400

\* client widths of the container: collapsed, narrower than the initial
\* region (and exactly the 40 px margin of the presets), and roomy
ContainerWidths == {0, 40, 300}

\* natural sizes of the image being cropped
ImageSizes == {[width |-> 800, height |-> 400], [width |-> 100, height |-> 400],
               [width |-> 400, height |-> 800]}

\* pointer positions relative to the container's top-left corner
\* (e.clientX - rect.left, e.clientY - rect.top), in pixels
PointerGrid == 100
MaxPointer  == 3
PointerOffsets == {k * PointerGrid : k \in -1..MaxPointer}
CropEvents == [x : PointerOffsets, y : PointerOffsets]

\* Math.max(0, v): the clamp without its upper end
ClampLowerOnly(v, hi) == Max(0, v)

\* Math.max(0, Math.min(v, hi))
Clamp(v, hi) == Max(0, Min(v, hi))

\* the container's width when the stage mounts; the window may be resized
InitialContainerWidth == 300

\* clientWidth || 400, clientHeight || 300
OrElse(v, fallback) == IF v = 0 THEN fallback ELSE v

\* the stage is rendered: onCropComplete has not closed it
CropMounted == ~cropOutput.applied

CropInit ==
    /\ cropArea = [x |-> Sub(50), y |-> Sub(50), width |-> Sub(200), height |-> Sub(200)]
    /\ isDragging = FALSE
    /\ dragStart = [x |-> 0, y |-> 0]
    /\ imageSize = [width |-> 0, height |-> 0]
    /\ container = [width |-> InitialContainerWidth, height |-> ContainerHeight]
    \* the mount effect: img.onload = ...; img.src = imageSrc
    /\ cropLoad = [pending |-> TRUE]
    /\ cropTrace = "mount"
    /\ cropOutput = [applied |-> FALSE, width |-> 0, height |-> 0,
                     sx |-> Number(0), sy |-> Number(0), sw |-> Number(0), sh |-> Number(0)]

\* the size at which the load callback takes the image to be displayed in
\* container c: img.width * scale and img.height * scale, in sub-pixels, with
\* scale = Math.min(containerWidth / img.width, containerHeight / img.height)
DisplaySize(c, img) ==
    LET containerWidth  == OrElse(c.width, 400)
        containerHeight == OrElse(c.height, 300)
        widthBound == containerWidth * img.height <= containerHeight * img.width
    IN [width  |-> IF widthBound THEN Sub(containerWidth)
                   ELSE Quot(Sub(img.width * containerHeight), img.height),
        height |-> IF widthBound THEN Quot(Sub(img.height * containerWidth), img.width)
                   ELSE Sub(containerHeight)]

\* img.onload of the mount effect
CropImageLoaded(img) ==
    /\ CropMounted
    /\ cropLoad.pending
    /\ LET display == DisplaySize(container, img)
       IN /\ imageSize' = [width |-> img.width, height |-> img.height]
          /\ cropArea' = [x |-> Quot(display.width - Sub(150), 2),
                          y |-> Quot(display.height - Sub(150), 2),
                          width |-> Sub(150), height |-> Sub(150)]
    /\ cropLoad' = [pending |-> FALSE]
    /\ cropTrace' = "load"
    /\ UNCHANGED <<isDragging, dragStart, container, cropOutput>>
    /\ UNCHANGED <<edVars, sessVars, stageVars>>

\* onMouseDown of the region's element: the pointer is on the region
HandleMouseDown(e) ==
    /\ CropMounted
    /\ Sub(e.x) >= cropArea.x /\ Sub(e.x) <= cropArea.x + cropArea.width
    /\ Sub(e.y) >= cropArea.y /\ Sub(e.y) <= cropArea.y + cropArea.height
    /\ isDragging' = TRUE
    /\ dragStart' = [x |-> Sub(e.x) - cropArea.x, y |-> Sub(e.y) - cropArea.y]
    /\ cropTrace' = "down"
    /\ UNCHANGED <<cropArea, imageSize, container, cropLoad, cropOutput>>
    /\ UNCHANGED <<edVars, sessVars, stageVars>>

\* handleMouseMove listening at all times and without its isDragging test
HandleMouseMoveWhileIdle(e) ==
    /\ CropMounted
    /\ LET newX == Sub(e.x) - dragStart.x
           newY == Sub(e.y) - dragStart.y
           maxX == Sub(container.width) - cropArea.width
           maxY == Sub(container.height) - cropArea.height
       IN cropArea' = [cropArea EXCEPT !.x = Clamp(newX, maxX), !.y = Clamp(newY, maxY)]
    /\ cropTrace' = "move"
    /\ UNCHANGED <<isDragging, dragStart, imageSize, container, cropLoad, cropOutput>>
    /\ UNCHANGED <<edVars, sessVars, stageVars>>

\* the document's mousemove listener, attached while isDragging
HandleMouseMove(e) ==
    /\ CropMounted
    /\ isDragging
    /\ LET newX == Sub(e.x) - dragStart.x
           newY == Sub(e.y) - dragStart.y
           maxX == Sub(container.width) - cropArea.width
           maxY == Sub(container.height) - cropArea.height
       IN cropArea' = [cropArea EXCEPT !.x = Clamp(newX, maxX), !.y = Clamp(newY, maxY)]
    /\ cropTrace' = "move"
    /\ UNCHANGED <<isDragging, dragStart, imageSize, container, cropLoad, cropOutput>>
    /\ UNCHANGED <<edVars, sessVars, stageVars>>

\* the document's mouseup listener, attached while isDragging
HandleMouseUp ==
    /\ CropMounted
    /\ isDragging
    /\ isDragging' = FALSE
    /\ cropTrace' = "up"
    /\ UNCHANGED <<cropArea, dragStart, imageSize, container, cropLoad, cropOutput>>
    /\ UNCHANGED <<edVars, sessVars, stageVars>>

\* presetCrops: ratio = num / den
PresetCrops == {[name |-> "Square", num |-> 1, den |-> 1], [name |-> "16:9", num |-> 16, den |-> 9],
                [name |-> "4:3", num |-> 4, den |-> 3], [name |-> "3:2", num |-> 3, den |-> 2]}

\* a preset button, clicked while no drag is in progress
ApplyPresetCrop(ratio) ==
    /\ CropMounted
    /\ ~isDragging
    /\ LET containerWidth  == OrElse(container.width, 400)
           containerHeight == OrElse(container.height, 300)
           width  == IF ratio.num >= ratio.den
                     THEN Sub(Min(200, containerWidth - 40))
                     ELSE Quot(Sub(Min(200, containerHeight - 40)) * ratio.num, ratio.den)
           height == IF ratio.num >= ratio.den
                     THEN Quot(Sub(Min(200, containerWidth - 40)) * ratio.den, ratio.num)
                     ELSE Sub(Min(200, containerHeight - 40))
       IN cropArea' = [x |-> Quot(Sub(containerWidth) - width, 2),
                       y |-> Quot(Sub(containerHeight) - height, 2),
                       width |-> width, height |-> height]
    /\ cropTrace' = "preset"
    /\ UNCHANGED <<isDragging, dragStart, imageSize, container, cropLoad, cropOutput>>
    /\ UNCHANGED <<edVars, sessVars, stageVars>>

\* the window is resized: the container takes another client width
ResizeContainer(w) ==
    /\ CropMounted
    /\ w # container.width
    /\ container' = [container EXCEPT !.width = w]
    /\ cropTrace' = "resize"
    /\ UNCHANGED <<cropArea, isDragging, dragStart, imageSize, cropLoad, cropOutput>>
    /\ UNCHANGED <<edVars, sessVars, stageVars>>

\* the width and height attributes of a canvas are unsigned longs limited
\* to non-negative numbers with a fallback: a number that is assigned is
\* truncated, NaN and the infinities become 0, and a value outside
\* 0..2147483647 becomes the attribute's default
CanvasSize(x, fallback) ==
    IF x.den = 0 THEN 0
    ELSE LET t == Sign(x.num) * (Abs(x.num) \div x.den)
         IN IF t < 0 \/ t > 2147483647 THEN fallback ELSE t

\* a length of the region as a JS number of pixels
Pixels(sub) == Fraction(sub, SubPixels)

\* the Apply Crop button, clicked while no drag is in progress; onCropComplete
\* closes the stage
ApplyCropClicked ==
    /\ CropMounted
    /\ ~isDragging
    /\ LET containerWidth  == container.width
           containerHeight == container.height
           scaleX == Divide(imageSize.width, containerWidth)
           scaleY == Divide(imageSize.height, containerHeight)
       IN cropOutput' = [applied |-> TRUE,
                         width  |-> CanvasSize(Multiply(Pixels(cropArea.width), scaleX), 300),
                         height |-> CanvasSize(Multiply(Pixels(cropArea.height), scaleY), 150),
                         sx |-> Multiply(Pixels(cropArea.x), scaleX),
                         sy |-> Multiply(Pixels(cropArea.y), scaleY),
                         sw |-> Multiply(Pixels(cropArea.width), scaleX),
                         sh |-> Multiply(Pixels(cropArea.height), scaleY)]
    /\ cropTrace' = "apply"
    /\ UNCHANGED <<cropArea, isDragging, dragStart, imageSize, container, cropLoad>>
    /\ UNCHANGED <<edVars, sessVars, stageVars>>

CropNext ==
    \/ ApplyCropClicked
    \/ \E img \in ImageSizes : CropImageLoaded(img)
    \/ \E e \in CropEvents : HandleMouseDown(e)
    \/ \E e \in CropEvents : HandleMouseMove(e)
    \/ HandleMouseUp
    \/ \E ratio \in PresetCrops : ApplyPresetCrop(ratio)
    \/ \E w \in ContainerWidths : ResizeContainer(w)

\* C6 as claimed: after every pointer-move of a drag the region lies inside
\* the container, whatever the sizes of container and region.
C6_DragKeepsRegionInside ==
    cropTrace = "move" =>
        /\ cropArea.x >= 0
        /\ cropArea.y >= 0
        /\ cropArea.x + cropArea.width <= Sub(container.width)
        /\ cropArea.y + cropArea.height <= Sub(container.height)

\* C6 as amended: after every pointer-move of a drag the region lies inside
\* the container, whenever the region is no larger than the container
\* (width <= containerWidth and height <= containerHeight).
C6_DragKeepsFittingRegionInside ==
    (/\ cropTrace = "move"
     /\ cropArea.width <= Sub(container.width)
     /\ cropArea.height <= Sub(container.height)) =>
        /\ cropArea.x >= 0
        /\ cropArea.y >= 0
        /\ cropArea.x + cropArea.width <= Sub(container.width)
        /\ cropArea.y + cropArea.height <= Sub(container.height)

\* a drag has pulled a region narrower than the container against its far edge
C6_Witness ==
    /\ cropTrace = "move"
    /\ cropArea.width < Sub(container.width)
    /\ cropArea.height <= Sub(container.height)
    /\ cropArea.x + cropArea.width = Sub(container.width)

\* C11 as claimed: whatever the container's size, the region a preset button
\* produces has width / height equal to the preset's ratio (a region of
\* height 0 has no ratio).
C11_PresetRegionHasRatio ==
    [][\A ratio \in PresetCrops :
          ApplyPresetCrop(ratio) =>
              /\ cropArea'.height # 0
              /\ cropArea'.width * ratio.den = cropArea'.height * ratio.num]_vars

\* C22 as claimed: whatever the container, the image size and the region
\* were, the buffer Apply Crop produced is at least 1x1 pixels and the source
\* rectangle it drew from has finite coordinates.
C22_ApplyCropClampsDegenerateGeometry ==
    cropOutput.applied =>
        /\ cropOutput.width >= 1
        /\ cropOutput.height >= 1
        /\ IsFinite(cropOutput.sx) /\ IsFinite(cropOutput.sy)
        /\ IsFinite(cropOutput.sw) /\ IsFinite(cropOutput.sh)

C24_InitialRegionCentredInside ==
    (cropTrace \in {"load", "preset"} /\ ~cropLoad.pending) =>
        LET display == DisplaySize(container, imageSize)
        IN /\ 2 * cropArea.x + cropArea.width = display.width
           /\ 2 * cropArea.y + cropArea.height = display.height
           /\ cropArea.x >= 0
           /\ cropArea.y >= 0
           /\ cropArea.x + cropArea.width <= display.width
           /\ cropArea.y + cropArea.height <= display.height

(***************************************************************************)
(*                                SESSION                                  *)
(*                                                                         *)
(* An image reference is the sequence of what produced it: the uploaded    *)
(* file, then the stages that were committed on it.  A stage is modelled   *)
(* by the image it is handed (its imageSrc prop) and the image it hands    *)
(* back; the annotation stage hands back the prop it rendered, edited.     *)
(***************************************************************************)

\* ---- bounds of the session model ----
MaxOps         == 2   \* stages committed on one uploaded file
MaxFilterLoads == 2   \* applyFilters' Image objects in flight at once

Files == {"a.png"}

CropOf(img)   == Append(img, "crop")
FilterOf(img) == Append(img, "filter")
EditOf(img)   == Append(img, "edit")

\* a || b on image references
Or(a, b) == IF a # NULL THEN a ELSE b

CurrentImage == Or(editedImage, Or(filteredImage, Or(croppedImage, uploadedImage)))

\* the crop stage handed croppedImage || uploadedImage
CropperSrcIgnoringLaterStages == Or(croppedImage, uploadedImage)

\* the imageSrc prop of each stage
CropperSrc  == Or(editedImage, Or(filteredImage, Or(croppedImage, uploadedImage)))
FiltersSrc  == Or(editedImage, Or(croppedImage, uploadedImage))
EditorSrc   == Or(filteredImage, Or(croppedImage, uploadedImage))
DownloadSrc == CurrentImage

\* what ImageEditor renders
RenderedStage ==
    IF uploadedImage = NULL THEN "upload"
    ELSE IF showCropper THEN "crop"
    ELSE IF showFilters THEN "filters"
    ELSE IF showEditor THEN "editor"
    ELSE IF showDownload THEN "download"
    ELSE "main"

Refs == <<uploadedImage, croppedImage, filteredImage, editedImage>>

\* the stage panels whose show flag is set
OpenPanels ==
    {panel \in {"crop", "filters", "editor", "download"} :
        \/ panel = "crop" /\ showCropper
        \/ panel = "filters" /\ showFilters
        \/ panel = "editor" /\ showEditor
        \/ panel = "download" /\ showDownload}

SessInit ==
    /\ uploadedImage = NULL
    /\ croppedImage = NULL
    /\ filteredImage = NULL
    /\ editedImage = NULL
    /\ showCropper = FALSE
    /\ showFilters = FALSE
    /\ showEditor = FALSE
    /\ showDownload = FALSE
    /\ filterLoads = EmptyBag
    /\ sessTrace = [op |-> "mount", out |-> NULL, atOpen |-> <<NULL, NULL, NULL, NULL>>]

\* handleFileSelect and its reader.onload, from the upload card
HandleFileSelect(file) ==
    /\ RenderedStage = "upload"
    /\ uploadedImage' = <<file>>
    /\ croppedImage' = NULL
    /\ filteredImage' = NULL
    /\ editedImage' = NULL
    /\ sessTrace' = [sessTrace EXCEPT !.op = "fileSelect", !.out = NULL]
    /\ UNCHANGED <<showCropper, showFilters, showEditor, showDownload, filterLoads>>
    /\ UNCHANGED <<edVars, cropVars, stageVars>>

\* "Choose Different Image": setUploadedImage(null)
ChooseDifferentImage ==
    /\ RenderedStage = "main"
    /\ uploadedImage' = NULL
    /\ sessTrace' = [sessTrace EXCEPT !.op = "chooseDifferent"]
    /\ UNCHANGED <<croppedImage, filteredImage, editedImage,
                   showCropper, showFilters, showEditor, showDownload, filterLoads>>
    /\ UNCHANGED <<edVars, cropVars, stageVars>>

StartCropping ==
    /\ RenderedStage = "main"
    /\ showCropper' = TRUE
    /\ sessTrace' = [sessTrace EXCEPT !.op = "startCropping", !.atOpen = Refs]
    /\ UNCHANGED <<uploadedImage, croppedImage, filteredImage, editedImage,
                   showFilters, showEditor, showDownload, filterLoads>>
    /\ UNCHANGED <<edVars, cropVars, stageVars>>

\* startFiltering reachable from every view
StartFilteringFromAnyView ==
    /\ showFilters' = TRUE
    /\ sessTrace' = [sessTrace EXCEPT !.op = "startFiltering", !.atOpen = Refs]
    /\ UNCHANGED <<uploadedImage, croppedImage, filteredImage, editedImage,
                   showCropper, showEditor, showDownload, filterLoads>>
    /\ UNCHANGED <<edVars, cropVars, stageVars>>

StartFiltering ==
    /\ RenderedStage = "main"
    /\ showFilters' = TRUE
    /\ sessTrace' = [sessTrace EXCEPT !.op = "startFiltering", !.atOpen = Refs]
    /\ UNCHANGED <<uploadedImage, croppedImage, filteredImage, editedImage,
                   showCropper, showEditor, showDownload, filterLoads>>
    /\ UNCHANGED <<edVars, cropVars, stageVars>>

StartEditing ==
    /\ RenderedStage = "main"
    /\ showEditor' = TRUE
    /\ sessTrace' = [sessTrace EXCEPT !.op = "startEditing", !.atOpen = Refs]
    /\ UNCHANGED <<uploadedImage, croppedImage, filteredImage, editedImage,
                   showCropper, showFilters, showDownload, filterLoads>>
    /\ UNCHANGED <<edVars, cropVars, stageVars>>

StartDownload ==
    /\ RenderedStage = "main"
    /\ showDownload' = TRUE
    /\ sessTrace' = [sessTrace EXCEPT !.op = "startDownload", !.atOpen = Refs]
    /\ UNCHANGED <<uploadedImage, croppedImage, filteredImage, editedImage,
                   showCropper, showFilters, showEditor, filterLoads>>
    /\ UNCHANGED <<edVars, cropVars, stageVars>>

HandleCropComplete(croppedImageSrc) ==
    /\ croppedImage' = croppedImageSrc
    /\ filteredImage' = NULL
    /\ editedImage' = NULL
    /\ showCropper' = FALSE
    /\ sessTrace' = [sessTrace EXCEPT !.op = "cropComplete", !.out = croppedImageSrc]
    /\ UNCHANGED <<uploadedImage, showFilters, showEditor, showDownload>>

\* handleFiltersApply without setEditedImage(null)
HandleFiltersApplyKeepingEdits(filteredImageSrc) ==
    /\ filteredImage' = filteredImageSrc
    /\ showFilters' = FALSE
    /\ sessTrace' = [sessTrace EXCEPT !.op = "filtersApply", !.out = filteredImageSrc]
    /\ UNCHANGED <<uploadedImage, croppedImage, editedImage, showCropper, showEditor, showDownload>>

HandleFiltersApply(filteredImageSrc) ==
    /\ filteredImage' = filteredImageSrc
    /\ editedImage' = NULL
    /\ showFilters' = FALSE
    /\ sessTrace' = [sessTrace EXCEPT !.op = "filtersApply", !.out = filteredImageSrc]
    /\ UNCHANGED <<uploadedImage, croppedImage, showCropper, showEditor, showDownload>>

HandleEditComplete(editedImageSrc) ==
    /\ editedImage' = editedImageSrc
    /\ showEditor' = FALSE
    /\ sessTrace' = [sessTrace EXCEPT !.op = "editComplete", !.out = editedImageSrc]
    /\ UNCHANGED <<uploadedImage, croppedImage, filteredImage, showCropper, showFilters, showDownload>>

\* the crop stage's Apply Crop: applyCrop draws its <img src={imageSrc}> and
\* calls onCropComplete
ApplyCrop ==
    /\ RenderedStage = "crop"
    /\ Len(CropperSrc) <= MaxOps
    /\ HandleCropComplete(CropOf(CropperSrc))
    /\ UNCHANGED filterLoads
    /\ UNCHANGED <<edVars, cropVars, stageVars>>

\* the filter stage's Apply: applyFilters starts decoding imageSrc
ApplyFilters ==
    /\ RenderedStage = "filters"
    /\ Len(FiltersSrc) <= MaxOps
    /\ BagCardinality(filterLoads) < MaxFilterLoads
    /\ filterLoads' = filterLoads (+) SetToBag({[src |-> FiltersSrc]})
    /\ sessTrace' = [sessTrace EXCEPT !.op = "applyFilters"]
    /\ UNCHANGED <<uploadedImage, croppedImage, filteredImage, editedImage,
                   showCropper, showFilters, showEditor, showDownload>>
    /\ UNCHANGED <<edVars, cropVars, stageVars>>

\* img.onload of applyFilters: draw through the filter, onFiltersApply
FilterLoaded(l) ==
    /\ BagIn(l, filterLoads)
    /\ filterLoads' = filterLoads (-) SetToBag({l})
    /\ HandleFiltersApply(FilterOf(l.src))
    /\ UNCHANGED <<edVars, cropVars, stageVars>>

\* the annotation stage's Apply: applyEdits serialises its canvas
ApplyEdits ==
    /\ RenderedStage = "editor"
    /\ Len(EditorSrc) <= MaxOps
    /\ HandleEditComplete(EditOf(EditorSrc))
    /\ UNCHANGED filterLoads
    /\ UNCHANGED <<edVars, cropVars, stageVars>>

HandleCropCancel ==
    /\ RenderedStage = "crop"
    /\ showCropper' = FALSE
    /\ sessTrace' = [sessTrace EXCEPT !.op = "cancel"]
    /\ UNCHANGED <<uploadedImage, croppedImage, filteredImage, editedImage,
                   showFilters, showEditor, showDownload, filterLoads>>
    /\ UNCHANGED <<edVars, cropVars, stageVars>>

HandleFiltersCancel ==
    /\ RenderedStage = "filters"
    /\ showFilters' = FALSE
    /\ sessTrace' = [sessTrace EXCEPT !.op = "cancel"]
    /\ UNCHANGED <<uploadedImage, croppedImage, filteredImage, editedImage,
                   showCropper, showEditor, showDownload, filterLoads>>
    /\ UNCHANGED <<edVars, cropVars, stageVars>>

HandleEditCancel ==
    /\ RenderedStage = "editor"
    /\ showEditor' = FALSE
    /\ sessTrace' = [sessTrace EXCEPT !.op = "cancel"]
    /\ UNCHANGED <<uploadedImage, croppedImage, filteredImage, editedImage,
                   showCropper, showFilters, showDownload, filterLoads>>
    /\ UNCHANGED <<edVars, cropVars, stageVars>>

HandleDownloadCancel ==
    /\ RenderedStage = "download"
    /\ showDownload' = FALSE
    /\ sessTrace' = [sessTrace EXCEPT !.op = "cancel"]
    /\ UNCHANGED <<uploadedImage, croppedImage, filteredImage, editedImage,
                   showCropper, showFilters, showEditor, filterLoads>>
    /\ UNCHANGED <<edVars, cropVars, stageVars>>

SessNext ==
    \/ \E file \in Files : HandleFileSelect(file)
    \/ ChooseDifferentImage
    \/ StartCropping
    \/ StartFiltering
    \/ StartEditing
    \/ StartDownload
    \/ ApplyCrop
    \/ ApplyFilters
    \/ \E l \in BagToSet(filterLoads) : FilterLoaded(l)
    \/ ApplyEdits
    \/ HandleCropCancel
    \/ HandleFiltersCancel
    \/ HandleEditCancel
    \/ HandleDownloadCancel

(***************************************************************************)
(* sessTrace records, for the statements below: op, the last handler; out, *)
(* the image the last commit handed to the session (null after an upload); *)
(* atOpen, the four references as they were when a stage was last opened.  *)
(***************************************************************************)

\* C7: a crop commit clears the filtered and edited references and makes the
\* crop output current; a filter commit clears the edited reference and
\* makes the filter output current; an edit commit leaves the cropped and
\* filtered references alone and makes the edit output current; and at all
\* times the current image is the output of the most recent commit.
C7_LastAppliedWins ==
    /\ [][/\ ApplyCrop =>
               /\ croppedImage' = CropOf(CropperSrc)
               /\ filteredImage' = NULL /\ editedImage' = NULL
               /\ CurrentImage' = croppedImage'
          /\ \A l \in BagToSet(filterLoads) : FilterLoaded(l) =>
               /\ filteredImage' = FilterOf(l.src)
               /\ editedImage' = NULL
               /\ CurrentImage' = filteredImage'
          /\ ApplyEdits =>
               /\ editedImage' = EditOf(EditorSrc)
               /\ croppedImage' = croppedImage /\ filteredImage' = filteredImage
               /\ CurrentImage' = editedImage']_vars
    /\ [](sessTrace.out # NULL => CurrentImage = sessTrace.out)

\* a filter was committed over an edit
C7_Witness ==
    /\ sessTrace.op = "filtersApply"
    /\ Len(filteredImage) = 3
    /\ filteredImage[2] = "edit"
    /\ CurrentImage = filteredImage

\* C8 as claimed: when the filter stage or the annotation stage is opened,
\* the image it is handed is the session's current image.
C8_StagesOpenOnCurrentImage ==
    /\ sessTrace.op = "startFiltering" => FiltersSrc = CurrentImage
    /\ sessTrace.op = "startEditing" => EditorSrc = CurrentImage

\* C9: the crop stage is handed the current image, and a crop commit makes
\* the crop of that image both the cropped reference and the current image;
\* committed over a filter result, it clears the filtered reference and the
\* new current image is the crop of the filtered image.
C9_CropTakesCurrentImage ==
    [][ApplyCrop =>
          /\ CropperSrc = CurrentImage
          /\ croppedImage' = CropOf(CurrentImage)
          /\ CurrentImage' = CropOf(CurrentImage)
          /\ (filteredImage # NULL /\ editedImage = NULL) =>
                (filteredImage' = NULL /\ CurrentImage' = CropOf(filteredImage))]_vars

\* a crop was committed over a filter result
C9_Witness ==
    /\ sessTrace.op = "cropComplete"
    /\ filteredImage = NULL
    /\ Len(croppedImage) = 3
    /\ croppedImage[2] = "filter"
    /\ croppedImage[3] = "crop"

\* C10 as claimed: when a stage is closed with Cancel the four references are
\* as they were when it was opened, and a decode callback of a filter stage
\* that is no longer open changes none of them.
C10_CancelLeavesReferencesAlone ==
    /\ [](sessTrace.op = "cancel" => Refs = sessTrace.atOpen)
    /\ [][(~showFilters /\ \E l \in BagToSet(filterLoads) : FilterLoaded(l)) =>
             UNCHANGED Refs]_vars

\* C25: at most one of the four stage panels is open in every state, and a
\* step that opens a panel starts from a state with an uploaded image and no
\* panel open.
C25_AtMostOnePanelOpen ==
    /\ [](Cardinality(OpenPanels) <= 1)
    /\ [][OpenPanels' \ OpenPanels # {} =>
              (uploadedImage # NULL /\ OpenPanels = {})]_vars

\* the download panel is open on an image that was cropped and then edited,
\* after a stage was opened and cancelled
C25_Witness ==
    /\ OpenPanels = {"download"}
    /\ croppedImage # NULL
    /\ editedImage # NULL

(***************************************************************************)
(*                          COORDINATE MAPPER                              *)
(*                                                                         *)
(* getCanvasCoordinates applied to pointer events on canvases and rendered *)
(* boxes of several sizes, among them boxes of width or height 0.          *)
(***************************************************************************)

\* pointer offsets inside the rendered box: multiples of MapperGrid
MapperGrid      == 50
MaxMapperOffset == 3
MapperEvents == [px : {k * MapperGrid : k \in 0..MaxMapperOffset},
                 py : {k * MapperGrid : k \in 0..MaxMapperOffset}]

\* canvas.width x canvas.height: the default canvas and a loaded image
MapperCanvases == {[width |-> 300, height |-> 150], [width |-> 400, height |-> 300]}

\* getBoundingClientRect(): scaled down, unscaled, and without extent
MapperRects == {[width |-> 200, height |-> 150], [width |-> 400, height |-> 300],
                [width |-> 300, height |-> 0], [width |-> 0, height |-> 0]}

MapperInit ==
    mapper = [canvas |-> [width |-> 300, height |-> 150],
              e |-> [px |-> 0, py |-> 0],
              rect |-> [width |-> 300, height |-> 150],
              p |-> [x |-> Number(0), y |-> Number(0)],
              called |-> FALSE]

\* canvas.width = img.width; canvas.height = img.height; the point mapped
\* for the canvas' previous size is forgotten
SetCanvasSize(c) ==
    /\ c # mapper.canvas
    /\ mapper' = [mapper EXCEPT !.canvas = c, !.called = FALSE]
    /\ UNCHANGED <<edVars, cropVars, sessVars, download, filterStage>>

\* a pointer event on the canvas while it is rendered in the box rect
MapPointer(e, rect) ==
    /\ mapper' = [mapper EXCEPT !.e = e, !.rect = rect,
                                !.p = GetCanvasCoordinates(e, rect, mapper.canvas),
                                !.called = TRUE]
    /\ UNCHANGED <<edVars, cropVars, sessVars, download, filterStage>>

MapperNext ==
    \/ \E c \in MapperCanvases : SetCanvasSize(c)
    \/ \E e \in MapperEvents : \E rect \in MapperRects : MapPointer(e, rect)

\* C12: for a box with dispW, dispH > 0 the mapped point is exactly
\* (px * bufW / dispW, py * bufH / dispH), computed from the box of the
\* event that is being mapped.
C12_PointerMapsByScale ==
    (mapper.called /\ mapper.rect.width > 0 /\ mapper.rect.height > 0) =>
        /\ mapper.p.x.den > 0
        /\ mapper.p.y.den > 0
        /\ mapper.p.x.num * mapper.rect.width = mapper.e.px * mapper.canvas.width * mapper.p.x.den
        /\ mapper.p.y.num * mapper.rect.height = mapper.e.py * mapper.canvas.height * mapper.p.y.den

\* buffer 400x300 shown at 200x150: pointer (50,50) maps to (100,100)
C12_Witness ==
    /\ mapper.called
    /\ mapper.canvas = [width |-> 400, height |-> 300]
    /\ mapper.rect = [width |-> 200, height |-> 150]
    /\ mapper.e = [px |-> 50, py |-> 50]
    /\ mapper.p = [x |-> Number(100), y |-> Number(100)]

\* C13 as claimed: for a box of width or height 0 the mapper returns (0,0).
C13_DegenerateBoxMapsToOrigin ==
    (mapper.called /\ (mapper.rect.width = 0 \/ mapper.rect.height = 0)) =>
        mapper.p = [x |-> Number(0), y |-> Number(0)]

(***************************************************************************)
(*                             EXPORT STAGE                                *)
(*                                                                         *)
(* The target dimensions of the export stage: the width and height inputs, *)
(* the aspect-lock checkbox and the preset sizes.  download.trace is a     *)
(* history variable: the last handler and the value it was given.          *)
(***************************************************************************)

\* Math.round of a finite number: the nearest integer, halves towards +Infinity
MathRound(x) == (2 * x.num + x.den) \div (2 * x.den)

\* img.width x img.height of the image being exported
DownloadImages == {[width |-> 1600, height |-> 900], [width |-> 3, height |-> 2]}

\* Number.parseInt(e.target.value) || 0 of the width and height inputs
DimensionInputs == {0, 1, 2, 800}

\* presetSizes, apart from "Original"
PresetSizes == {[width |-> 1920, height |-> 1080], [width |-> 1080, height |-> 1080],
                [width |-> 1080, height |-> 1920], [width |-> 1200, height |-> 630],
                [width |-> 1500, height |-> 500]}

DownloadInit ==
    download = [maintainAspectRatio |-> TRUE,
                originalDimensions |-> [width |-> 0, height |-> 0],
                customDimensions |-> [width |-> 0, height |-> 0],
                pending |-> TRUE,
                trace |-> [op |-> "mount", value |-> 0]]

\* img.onload of the mount effect
DownloadImageLoaded(img) ==
    /\ download.pending
    /\ download' = [download EXCEPT !.originalDimensions = img,
                                    !.customDimensions = img,
                                    !.pending = FALSE,
                                    !.trace = [op |-> "load", value |-> 0]]
    /\ UNCHANGED <<edVars, cropVars, sessVars, mapper, filterStage>>

\* updateWidth taking the ratio from the dimensions on display
UpdateWidthFromDisplayed(width) ==
    /\ download' = [download EXCEPT
          !.customDimensions =
              IF download.maintainAspectRatio /\ download.customDimensions.width > 0
              THEN [width |-> width,
                    height |-> MathRound(Times(width, Divide(download.customDimensions.height,
                                                             download.customDimensions.width)))]
              ELSE [@ EXCEPT !.width = width],
          !.trace = [op |-> "updateWidth", value |-> width]]
    /\ UNCHANGED <<edVars, cropVars, sessVars, mapper, filterStage>>

UpdateWidth(width) ==
    /\ download' = [download EXCEPT
          !.customDimensions =
              IF download.maintainAspectRatio /\ download.originalDimensions.width > 0
              THEN LET aspectRatio == Divide(download.originalDimensions.height,
                                             download.originalDimensions.width)
                   IN [width |-> width, height |-> MathRound(Times(width, aspectRatio))]
              ELSE [@ EXCEPT !.width = width],
          !.trace = [op |-> "updateWidth", value |-> width]]
    /\ UNCHANGED <<edVars, cropVars, sessVars, mapper, filterStage>>

UpdateHeight(height) ==
    /\ download' = [download EXCEPT
          !.customDimensions =
              IF download.maintainAspectRatio /\ download.originalDimensions.height > 0
              THEN LET aspectRatio == Divide(download.originalDimensions.width,
                                             download.originalDimensions.height)
                   IN [height |-> height, width |-> MathRound(Times(height, aspectRatio))]
              ELSE [@ EXCEPT !.height = height],
          !.trace = [op |-> "updateHeight", value |-> height]]
    /\ UNCHANGED <<edVars, cropVars, sessVars, mapper, filterStage>>

\* updateSetting("maintainAspectRatio", e.target.checked)
UpdateSetting(checked) ==
    /\ checked # download.maintainAspectRatio
    /\ download' = [download EXCEPT !.maintainAspectRatio = checked,
                                    !.trace = [op |-> "updateSetting", value |-> 0]]
    /\ UNCHANGED <<edVars, cropVars, sessVars, mapper, filterStage>>

ApplyPresetSize(width, height) ==
    /\ download' = [download EXCEPT !.customDimensions = [width |-> width, height |-> height],
                                    !.trace = [op |-> "applyPresetSize", value |-> 0]]
    /\ UNCHANGED <<edVars, cropVars, sessVars, mapper, filterStage>>

DownloadNext ==
    \/ \E img \in DownloadImages : DownloadImageLoaded(img)
    \/ \E width \in DimensionInputs : UpdateWidth(width)
    \/ \E height \in DimensionInputs : UpdateHeight(height)
    \/ \E checked \in BOOLEAN : UpdateSetting(checked)
    \/ \E preset \in PresetSizes \cup {download.originalDimensions} :
           ApplyPresetSize(preset.width, preset.height)

\* C14: with the aspect lock on and the image's original dimensions (ow, oh)
\* known, after the width is set to w the target is (w, round(w * oh / ow)),
\* and after the height is set to h it is (round(h * ow / oh), h), whatever
\* the target dimensions were before; round(x) is the integer n with
\* n <= x + 1/2 < n + 1.
C14_LockedDimensionFollowsOriginalRatio ==
    LET o == download.originalDimensions
        c == download.customDimensions
        v == download.trace.value
    IN /\ (download.trace.op = "updateWidth" /\ download.maintainAspectRatio /\ o.width > 0) =>
              /\ c.width = v
              /\ 2 * c.height * o.width <= 2 * v * o.height + o.width
              /\ 2 * v * o.height + o.width < 2 * (c.height + 1) * o.width
       /\ (download.trace.op = "updateHeight" /\ download.maintainAspectRatio /\ o.height > 0) =>
              /\ c.height = v
              /\ 2 * c.width * o.height <= 2 * v * o.width + o.height
              /\ 2 * v * o.width + o.height < 2 * (c.width + 1) * o.height

\* original 1600x900, lock on, width set to 800: the target is 800x450
C14_Witness ==
    /\ download.trace = [op |-> "updateWidth", value |-> 800]
    /\ download.maintainAspectRatio
    /\ download.originalDimensions = [width |-> 1600, height |-> 900]
    /\ download.customDimensions = [width |-> 800, height |-> 450]

(***************************************************************************)
(*                             FILTER STAGE                                *)
(*                                                                         *)
(* The parameters of the filter stage, the filter string composed from     *)
(* them, and what Apply draws through it.  A filter string is the sequence *)
(* of its functions, each with its argument and unit.  The 2D context      *)
(* applies the functions in the order written; a function whose argument   *)
(* is its identity value (CSS filter effects: 100% for brightness,         *)
(* contrast and saturate, a multiple of 360deg for hue-rotate, 0 for the   *)
(* others) leaves every pixel as it is, any other changes the pixels.      *)
(***************************************************************************)

\* parameters away from their defaults at once, through the sliders
MaxEdited == 1

FilterKeys == {"brightness", "contrast", "saturation", "blur", "hueRotate",
               "sepia", "grayscale", "invert"}

defaultFilters ==
    [brightness |-> 100, contrast |-> 100, saturation |-> 100, blur |-> 0,
     hueRotate |-> 0, sepia |-> 0, grayscale |-> 0, invert |-> 0]

\* presetFilters, apart from "Original"
presetFilters ==
    {[defaultFilters EXCEPT !.sepia = 30, !.contrast = 110, !.brightness = 110],
     [defaultFilters EXCEPT !.grayscale = 100, !.contrast = 110],
     [defaultFilters EXCEPT !.hueRotate = 15, !.saturation = 120, !.brightness = 105],
     [defaultFilters EXCEPT !.hueRotate = 180, !.saturation = 110, !.brightness = 95],
     [defaultFilters EXCEPT !.contrast = 150, !.brightness = 105],
     [defaultFilters EXCEPT !.blur = 1, !.brightness = 110, !.contrast = 90],
     [defaultFilters EXCEPT !.contrast = 140, !.saturation = 130, !.brightness = 90]}

\* a slider position other than the default, per parameter
SliderValues ==
    [brightness |-> 150, contrast |-> 50, saturation |-> 0, blur |-> 2,
     hueRotate |-> 360, sepia |-> 50, grayscale |-> 100, invert |-> 100]

Edited(filterValues) == {k \in FilterKeys : filterValues[k] # defaultFilters[k]}

FilterFunction(fn, arg, unit) == [fn |-> fn, arg |-> arg, unit |-> unit]

\* generateFilterString with brightness and contrast exchanged
GenerateFilterStringContrastFirst(filterValues) ==
    << FilterFunction("contrast", filterValues.contrast, "%"),
       FilterFunction("brightness", filterValues.brightness, "%"),
       FilterFunction("saturate", filterValues.saturation, "%"),
       FilterFunction("blur", filterValues.blur, "px"),
       FilterFunction("hue-rotate", filterValues.hueRotate, "deg"),
       FilterFunction("sepia", filterValues.sepia, "%"),
       FilterFunction("grayscale", filterValues.grayscale, "%"),
       FilterFunction("invert", filterValues.invert, "%") >>

\* generateFilterString without the units
GenerateFilterStringWithoutUnits(filterValues) ==
    << FilterFunction("brightness", filterValues.brightness, ""),
       FilterFunction("contrast", filterValues.contrast, ""),
       FilterFunction("saturate", filterValues.saturation, ""),
       FilterFunction("blur", filterValues.blur, ""),
       FilterFunction("hue-rotate", filterValues.hueRotate, ""),
       FilterFunction("sepia", filterValues.sepia, ""),
       FilterFunction("grayscale", filterValues.grayscale, ""),
       FilterFunction("invert", filterValues.invert, "") >>

GenerateFilterString(filterValues) ==
    << FilterFunction("brightness", filterValues.brightness, "%"),
       FilterFunction("contrast", filterValues.contrast, "%"),
       FilterFunction("saturate", filterValues.saturation, "%"),
       FilterFunction("blur", filterValues.blur, "px"),
       FilterFunction("hue-rotate", filterValues.hueRotate, "deg"),
       FilterFunction("sepia", filterValues.sepia, "%"),
       FilterFunction("grayscale", filterValues.grayscale, "%"),
       FilterFunction("invert", filterValues.invert, "%") >>

\* the 2D context's reading of one filter function: does it leave pixels alone
\* (an argument without "%" is a factor: brightness(1) is brightness(100%))
IsIdentityFunction(f) ==
    LET percent == IF f.unit = "%" THEN f.arg ELSE f.arg * 100
    IN CASE f.fn \in {"brightness", "contrast", "saturate"} -> percent = 100
         [] f.fn = "hue-rotate" -> f.arg % 360 = 0
         [] f.fn = "blur" -> f.arg = 0
         [] OTHER -> percent = 0

RECURSIVE FilterPixels(_, _)
FilterPixels(filterString, pixels) ==
    IF filterString = <<>> THEN pixels
    ELSE FilterPixels(Tail(filterString),
                      IF IsIdentityFunction(Head(filterString)) THEN pixels
                      ELSE Append(pixels, Head(filterString)))

\* applyFilters' img.onload: canvas of the image's size, ctx.filter,
\* drawImage(img, 0, 0), toDataURL("image/png")
DrawFiltered(filterValues, img) ==
    [width |-> img.width, height |-> img.height,
     pixels |-> FilterPixels(GenerateFilterString(filterValues), img.pixels)]

\* the imageSrc prop: images of two sizes
FilterImages == {[width |-> 2, height |-> 1, pixels |-> <<"a">>],
                 [width |-> 1, height |-> 2, pixels |-> <<"b">>]}

NoImage == [width |-> 0, height |-> 0, pixels |-> <<>>]

FilterStageInit ==
    filterStage = [mounted |-> FALSE,
                   imageSrc |-> NoImage,
                   filters |-> defaultFilters,
                   filterStyle |-> GenerateFilterString(defaultFilters),
                   loading |-> FALSE,
                   captured |-> defaultFilters,
                   applied |-> FALSE,
                   output |-> NoImage]

\* the session renders <ImageFilters imageSrc=...>
MountImageFilters(img) ==
    /\ ~filterStage.mounted
    /\ ~filterStage.applied
    /\ filterStage' = [filterStage EXCEPT !.mounted = TRUE, !.imageSrc = img]
    /\ UNCHANGED <<edVars, cropVars, sessVars, mapper, download>>

UpdateFilter(key, value) ==
    /\ filterStage.mounted
    /\ LET next == [filterStage.filters EXCEPT ![key] = value]
       IN /\ next # filterStage.filters
          /\ Cardinality(Edited(next)) <= MaxEdited
          /\ filterStage' = [filterStage EXCEPT !.filters = next,
                                                !.filterStyle = GenerateFilterString(next)]
    /\ UNCHANGED <<edVars, cropVars, sessVars, mapper, download>>

ApplyPreset(preset) ==
    /\ filterStage.mounted
    /\ filterStage' = [filterStage EXCEPT !.filters = preset,
                                          !.filterStyle = GenerateFilterString(preset)]
    /\ UNCHANGED <<edVars, cropVars, sessVars, mapper, download>>

ResetFilters ==
    /\ filterStage.mounted
    /\ filterStage.filters # defaultFilters
    /\ filterStage' = [filterStage EXCEPT !.filters = defaultFilters,
                                          !.filterStyle = GenerateFilterString(defaultFilters)]
    /\ UNCHANGED <<edVars, cropVars, sessVars, mapper, download>>

\* the Apply button: applyFilters up to img.src = imageSrc; its onload keeps
\* the filters of the render that was clicked
ApplyFiltersClicked ==
    /\ filterStage.mounted
    /\ ~filterStage.loading
    /\ filterStage' = [filterStage EXCEPT !.loading = TRUE, !.captured = filterStage.filters]
    /\ UNCHANGED <<edVars, cropVars, sessVars, mapper, download>>

\* applyFilters' img.onload; onFiltersApply closes the stage, whose
\* parameters are gone with it
ApplyFiltersLoaded ==
    /\ filterStage.loading
    /\ filterStage' = [filterStage EXCEPT
          !.filters = defaultFilters,
          !.filterStyle = GenerateFilterString(defaultFilters),
          !.loading = FALSE,
          !.applied = TRUE,
          !.output = DrawFiltered(filterStage.captured, filterStage.imageSrc),
          !.mounted = FALSE]
    /\ UNCHANGED <<edVars, cropVars, sessVars, mapper, download>>

FilterStageNext ==
    \/ \E img \in FilterImages : MountImageFilters(img)
    \/ \E key \in FilterKeys : \E value \in {defaultFilters[key], SliderValues[key]} :
           UpdateFilter(key, value)
    \/ \E preset \in presetFilters \cup {defaultFilters} : ApplyPreset(preset)
    \/ ResetFilters
    \/ ApplyFiltersClicked
    \/ ApplyFiltersLoaded

\* C15: whatever the parameters and however they were reached, the filter
\* string of the preview lists the eight functions brightness, contrast,
\* saturate, blur, hue-rotate, sepia, grayscale, invert in this order, each
\* with the value of its own parameter.
C15_FilterStringInFixedOrder ==
    LET d == filterStage.filterStyle
        f == filterStage.filters
    IN /\ Len(d) = 8
       /\ [i \in 1..8 |-> d[i].fn] =
             <<"brightness", "contrast", "saturate", "blur",
               "hue-rotate", "sepia", "grayscale", "invert">>
       /\ [i \in 1..8 |-> d[i].arg] =
             <<f.brightness, f.contrast, f.saturation, f.blur,
               f.hueRotate, f.sepia, f.grayscale, f.invert>>

\* the "Vintage" preset (sepia 30, contrast 110, brightness 110) is on display
C15_Witness ==
    /\ filterStage.mounted
    /\ filterStage.filters = [defaultFilters EXCEPT !.sepia = 30, !.contrast = 110, !.brightness = 110]
    /\ filterStage.filterStyle[1] = FilterFunction("brightness", 110, "%")
    /\ filterStage.filterStyle[2] = FilterFunction("contrast", 110, "%")
    /\ filterStage.filterStyle[6] = FilterFunction("sepia", 30, "%")

\* C16: an Apply clicked with brightness, contrast, saturation = 100 and
\* blur, hueRotate, sepia, grayscale, invert = 0 hands back an image of the
\* input's size whose pixels are the input's pixels.
C16_DefaultFiltersAreIdentity ==
    (/\ filterStage.applied
     /\ filterStage.captured =
           [brightness |-> 100, contrast |-> 100, saturation |-> 100, blur |-> 0,
            hueRotate |-> 0, sepia |-> 0, grayscale |-> 0, invert |-> 0]) =>
        filterStage.output = filterStage.imageSrc

\* the default parameters were applied to an image
C16_Witness ==
    /\ filterStage.applied
    /\ filterStage.captured = defaultFilters
    /\ filterStage.imageSrc \in FilterImages
    /\ filterStage.output = filterStage.imageSrc

(***************************************************************************)
(*                            SPECIFICATIONS                               *)
(***************************************************************************)

Init == EdInit /\ CropInit /\ SessInit /\ MapperInit /\ DownloadInit /\ FilterStageInit

SpecEditor == Init /\ [][EdNext]_vars

SpecShapes == Init /\ [][ShapesNext]_vars

SpecText == Init /\ [][TextNext]_vars

SpecCrop == Init /\ [][CropNext]_vars

SpecSession == Init /\ [][SessNext]_vars

SpecMapper == Init /\ [][MapperNext]_vars

SpecDownload == Init /\ [][DownloadNext]_vars

SpecFilters == Init /\ [][FilterStageNext]_vars

====
